---------------------------- MODULE Spec2Model ----------------------------
(***************************************************************************)
(* METAR weather reader: the two request handlers of app.py (get_weather,  *)
(* api_weather) and the report decoder of metar_decoder.py (decode_metar). *)
(*                                                                         *)
(* Airport codes and fetched bodies are sequences of one-character         *)
(* strings, so that str.strip, str.upper, str.startswith and len are       *)
(* computed character by character.  An error message is a sequence whose  *)
(* first element is the fixed text of the f-string and whose rest is the   *)
(* interpolated text; concatenation is \o.  The lines of a decoded report  *)
(* are strings.                                                            *)
(***************************************************************************)
EXTENDS Integers, Sequences, FiniteSets, TLC

(***************************************************************************)
(* Bounds of the model.                                                    *)
(***************************************************************************)
MaxCodeLen == 5
MaxBodyLen == 2

BoundedSeq(S, n) == UNION {[1..k -> S] : k \in 0..n}

(***************************************************************************)
(* Python string methods used by the handlers.                             *)
(***************************************************************************)
Whitespace == {" "}

RECURSIVE lstrip(_)
lstrip(s) ==
    IF s = <<>> THEN s
    ELSE IF Head(s) \in Whitespace THEN lstrip(Tail(s)) ELSE s

RECURSIVE rstrip(_)
rstrip(s) ==
    IF s = <<>> THEN s
    ELSE IF s[Len(s)] \in Whitespace THEN rstrip(SubSeq(s, 1, Len(s) - 1)) ELSE s

strip(s) == rstrip(lstrip(s))

\* str.upper on one character of the code alphabet.
upper_char(c) == IF c = "k" THEN "K" ELSE c

upper(s) == [i \in 1..Len(s) |-> upper_char(s[i])]

startswith(s, prefix) ==
    /\ Len(s) >= Len(prefix)
    /\ SubSeq(s, 1, Len(prefix)) = prefix

\* True when `part` occurs in `whole` as a contiguous run (Python's `in`).
Contains(whole, part) ==
    \E i \in 0..(Len(whole) - Len(part)) :
        SubSeq(whole, i + 1, i + Len(part)) = part

(***************************************************************************)
(* Inputs: airport codes, fetched bodies, exceptions.                      *)
(***************************************************************************)
CodeChars == {" ", "k", "K"}
Codes == BoundedSeq(CodeChars, MaxCodeLen)

\* A form post may leave the airport_code field out; a URL path segment is
\* never empty.
Requests ==
    {[endpoint |-> "form", has_code |-> TRUE, code |-> c] : c \in Codes}
    \cup {[endpoint |-> "form", has_code |-> FALSE, code |-> <<>>]}
    \cup {[endpoint |-> "api", has_code |-> TRUE, code |-> c] : c \in Codes \ {<<>>}}
NoRequest == [endpoint |-> "none", has_code |-> FALSE, code |-> <<>>]

BodyChars == {" ", "N", "o", "E"}
BodyNoValid == <<"N", "o", " ", "v", "a", "l", "i", "d">>
BodyError == <<"E", "r", "r", "o", "r">>
BodyErrorPadded == <<" ", "E", "r", "r", "o", "r", ":", " ", "x", " ">>
BodyErro == <<"E", "r", "r", "o">>
BodyErrorInvalid == <<"E", "r", "r", "o", "K">>
BodyKJFK == <<"K", "J", "F", "K", " ", "0", "4", "1", "8", "5", "1", "Z", " ", "3", "1", "0", "0", "8", "K", "T", " ", "1", "0", "S", "M", " ", "F", "E", "W", "2", "5", "0", " ", "M", "0", "4", "/", "M", "1", "7", " ", "A", "3", "0", "3", "4">>
BodyGarbage == <<"I", "N", "V", "A", "L", "I", "D">>
SampleBodies ==
    {BodyNoValid, BodyError, BodyErrorPadded, BodyErro, BodyErrorInvalid,
     BodyKJFK, BodyGarbage}
Bodies == BoundedSeq(BodyChars, MaxBodyLen) \cup SampleBodies

\* Exceptions: a class and the text str(e) gives.  ConnectionError, Timeout
\* and HTTPError are the requests library's classes and subclasses of
\* requests.RequestException; "Exception" is any other exception.
NoException == [cls |-> "none", msg |-> <<>>]
RequestExceptionClasses == {"RequestException", "ConnectionError", "Timeout", "HTTPError"}
isinstance_RequestException(e) == e.cls \in RequestExceptionClasses

FetchExceptions ==
    {[cls |-> "ConnectionError", msg |-> <<"Connection refused">>],
     [cls |-> "Timeout", msg |-> <<"Read timed out">>],
     [cls |-> "HTTPError", msg |-> <<"404 Client Error">>],
     [cls |-> "Exception", msg |-> <<"Connection timeout">>]}

\* requests.get(...), raise_for_status() and response.text: the gateway either
\* hands back a body or raises.
FetchOutcomes ==
    {[ok |-> TRUE, body |-> b, exc |-> NoException] : b \in Bodies}
    \cup {[ok |-> FALSE, body |-> <<>>, exc |-> e] : e \in FetchExceptions}
NoFetch == [ok |-> FALSE, body |-> <<>>, exc |-> NoException]

(***************************************************************************)
(* metar_decoder.py.  The grammar parser (python-metar's Metar) is an      *)
(* external library: it either raises on the raw string or returns an      *)
(* observation.  Numeric fields of an observation are integers in          *)
(* hundredths of the unit the code reads them in; an optional field is a   *)
(* record [present, v].                                                    *)
(***************************************************************************)
Absent == [present |-> FALSE, v |-> 0]
Some(n) == [present |-> TRUE, v |-> n]
NoSpeed == [present |-> FALSE, kt |-> 0, mph |-> 0]
Speed(kt, mph) == [present |-> TRUE, kt |-> kt, mph |-> mph]
NoTime == [present |-> FALSE, year |-> 0, month |-> 0, day |-> 0, hour |-> 0, minute |-> 0]

\* Python's round-half-to-even of n/d, which is what the format
\* specifications .0f, .1f and .2f apply to an exactly representable value.
RoundHalfEven(n, d) ==
    LET q == n \div d
        r == n % d
    IN  IF 2 * r < d THEN q
        ELSE IF 2 * r > d THEN q + 1
        ELSE IF q % 2 = 0 THEN q ELSE q + 1

\* f"{x:.0f}" of x = n/100; a negative value that rounds to zero prints "-0".
fmt0(n) ==
    LET r == RoundHalfEven(n, 100)
    IN  IF r = 0 /\ n < 0 THEN "-0" ELSE ToString(r)

RECURSIVE pow2_mod100(_)
pow2_mod100(k) == IF k = 0 THEN 1 ELSE (2 * pow2_mod100(k - 1)) % 100

\* The k with 2^52 <= (n/100) * 2^k < 2^53, n > 0: the float nearest n/100 is
\* an integer multiple of 2^-k.
RECURSIVE float_scale(_, _)
float_scale(n, k) ==
    IF n >= 200 THEN float_scale(n \div 2, k - 1)
    ELSE IF n < 100 THEN float_scale(2 * n, k + 1)
    ELSE k

\* The float x that holds n/100 is the nearest multiple of 2^-k: -1 when x is
\* below n/100, 1 when it is above, 0 when n/100 is a binary fraction.
float_error_sign(n) ==
    IF n = 0 THEN 0
    ELSE LET r == ((n % 100) * pow2_mod100(float_scale(n, 52))) % 100
         IN  IF r = 0 THEN 0 ELSE IF r < 50 THEN -1 ELSE 1

\* f"{x:.1f}" of the float x that holds n/100, n >= 0: the exact value of x is
\* rounded, so a decimal tie goes the way x lies from it, and to even when x is
\* the tie exactly.
fmt1(n) ==
    LET q == n \div 10
        r == n % 10
        s == float_error_sign(n)
        t == IF r < 5 THEN q
             ELSE IF r > 5 THEN q + 1
             ELSE IF s < 0 THEN q
             ELSE IF s > 0 THEN q + 1
             ELSE IF q % 2 = 0 THEN q ELSE q + 1
    IN  ToString(t \div 10) \o "." \o ToString(t % 10)

RECURSIVE pow2(_)
pow2(k) == IF k = 0 THEN 1 ELSE 2 * pow2(k - 1)

\* The float 0.02953 is c = 8511443007760048 * 2^-58, above 0.02953 by
\* 19968 / (100000 * 2^58), and the low 16 bits of its significand are 59056.
\* The float product of a whole m >= 1 and c is m * c rounded to 53 bits:
\* the s with 2^(52+s) <= m * c * 2^58 < 2^(53+s) low bits r are dropped, to
\* nearest, ties to even.  -1 when the float product is below m * 0.02953,
\* 1 when it is above, 0 when it is equal.
float_product_error_sign(m) ==
    LET low == 59056
        err == 19968
        s == CHOOSE k \in 0..13 : 100000 * pow2(k) <= m * 188992 /\ m * 188992 < 200000 * pow2(k)
        r == (m * (low % pow2(s))) % pow2(s)
        odd == ((m * (low % pow2(s + 1))) % pow2(s + 1)) >= pow2(s)
        up == 2 * r > pow2(s) \/ (2 * r = pow2(s) /\ odd)
        d == m * err + 100000 * (IF up THEN pow2(s) - r ELSE 0 - r)
    IN  IF d > 0 THEN 1 ELSE IF d < 0 THEN -1 ELSE 0

\* f"{x:.2f}" of the float x = pressure_mb * 0.02953, n = 2953 times the
\* hundredths of pressure_mb, n >= 0: the exact value of x is rounded.  The
\* decimal product n/10000000 is a tie only for pressure_mb = 500, 1500,
\* 2500, ..., and there the digits go the way x lies from the tie.
fmt2(n) ==
    LET q == n \div 100000
        s == IF n % 100000 = 50000 THEN float_product_error_sign(n \div 295300) ELSE 0
        h == IF s > 0 THEN q + 1 ELSE IF s < 0 THEN q ELSE RoundHalfEven(n, 100000)
    IN  ToString(h \div 100) \o "." \o ToString((h % 100) \div 10) \o ToString(h % 10)

RECURSIVE join(_, _)
join(sep, parts) ==
    IF parts = <<>> THEN ""
    ELSE IF Len(parts) = 1 THEN parts[1]
    ELSE parts[1] \o sep \o join(sep, Tail(parts))

directions ==
    <<"north", "north-northeast", "northeast", "east-northeast",
      "east", "east-southeast", "southeast", "south-southeast",
      "south", "south-southwest", "southwest", "west-southwest",
      "west", "west-northwest", "northwest", "north-northwest">>

\* Mutant of degrees_to_direction: the half-sector offset is left out.
degrees_to_direction_no_offset(degrees) ==
    directions[((degrees \div 2250) % 16) + 1]

\* degrees in hundredths of a degree: int((degrees + 11.25) / 22.5) % 16
degrees_to_direction(degrees) ==
    directions[(((degrees + 1125) \div 2250) % 16) + 1]

cover_desc(cover) ==
    CASE cover = "CLR" -> "Clear"
      [] cover = "SKC" -> "Clear"
      [] cover = "FEW" -> "Few clouds"
      [] cover = "SCT" -> "Scattered clouds"
      [] cover = "BKN" -> "Broken clouds"
      [] cover = "OVC" -> "Overcast"
      [] cover = "VV"  -> "Vertical visibility"
      [] OTHER         -> cover

\* One sky layer [cover, height]: the height is a distance object or None, and
\* a height that converts to 0 feet is falsy.
sky_layer_text(sky) ==
    LET height == IF sky.height.present THEN sky.height.v ELSE 0
    IN  IF sky.height.present /\ height # 0
        THEN cover_desc(sky.cover) \o " at " \o fmt0(height) \o " feet"
        ELSE cover_desc(sky.cover)

\* Mutant of get_sky_condition: only the first layer is described.
get_sky_condition_first_layer(obs) ==
    IF obs.sky = <<>> THEN "Sky condition: Clear"
    ELSE "Sky: " \o sky_layer_text(obs.sky[1])

get_sky_condition(obs) ==
    IF obs.sky = <<>> THEN "Sky condition: Clear"
    ELSE "Sky: " \o join(", ", [i \in 1..Len(obs.sky) |-> sky_layer_text(obs.sky[i])])

\* Mutant of get_wind_info: a direction of 0 degrees counts as no direction.
get_wind_info_north_variable(obs) ==
    IF ~obs.wind_speed.present THEN "Wind: Calm"
    ELSE IF obs.wind_speed.kt < 100 THEN "Wind: Calm"
    ELSE
        LET direction == IF obs.wind_dir.present /\ obs.wind_dir.v # 0
                         THEN degrees_to_direction(obs.wind_dir.v)
                         ELSE "variable"
            wind_text == "Wind: " \o fmt0(obs.wind_speed.mph) \o " mph ("
                         \o fmt0(obs.wind_speed.kt) \o " knots) from the " \o direction
        IN  IF obs.wind_gust.present
            THEN wind_text \o ", gusting to " \o fmt0(obs.wind_gust.mph) \o " mph ("
                 \o fmt0(obs.wind_gust.kt) \o " knots)"
            ELSE wind_text

\* Mutant of get_wind_info: only a speed of exactly 0 knots is calm.
get_wind_info_zero_only(obs) ==
    IF ~obs.wind_speed.present THEN "Wind: Calm"
    ELSE IF obs.wind_speed.kt = 0 THEN "Wind: Calm"
    ELSE
        LET direction == IF obs.wind_dir.present
                         THEN degrees_to_direction(obs.wind_dir.v)
                         ELSE "variable"
            wind_text == "Wind: " \o fmt0(obs.wind_speed.mph) \o " mph ("
                         \o fmt0(obs.wind_speed.kt) \o " knots) from the " \o direction
        IN  IF obs.wind_gust.present
            THEN wind_text \o ", gusting to " \o fmt0(obs.wind_gust.mph) \o " mph ("
                 \o fmt0(obs.wind_gust.kt) \o " knots)"
            ELSE wind_text

get_wind_info(obs) ==
    IF ~obs.wind_speed.present THEN "Wind: Calm"
    ELSE IF obs.wind_speed.kt < 100 THEN "Wind: Calm"
    ELSE
        LET direction == IF obs.wind_dir.present
                         THEN degrees_to_direction(obs.wind_dir.v)
                         ELSE "variable"
            wind_text == "Wind: " \o fmt0(obs.wind_speed.mph) \o " mph ("
                         \o fmt0(obs.wind_speed.kt) \o " knots) from the " \o direction
        IN  IF obs.wind_gust.present
            THEN wind_text \o ", gusting to " \o fmt0(obs.wind_gust.mph) \o " mph ("
                 \o fmt0(obs.wind_gust.kt) \o " knots)"
            ELSE wind_text

\* Each weather item is modelled by its element wx[2].
get_weather_phenomena(obs) ==
    IF obs.weather = <<>> THEN ""
    ELSE "Weather: " \o join(", ", obs.weather)

\* str.lower on the weather texts of the model.
lower(w) ==
    CASE w = "Rain" -> "rain"
      [] w = "RA"   -> "ra"
      [] w = "Mist" -> "mist"
      [] OTHER      -> w

\* Mutant of summary_sky: the category is that of the first layer.
summary_sky_first_layer(obs) ==
    IF obs.sky = <<>> \/ obs.sky[1].cover \in {"CLR", "SKC"} THEN "Clear skies"
    ELSE IF obs.sky[1].cover = "OVC" THEN "Overcast"
    ELSE IF obs.sky[1].cover \in {"BKN", "SCT"} THEN "Partly cloudy"
    ELSE "Few clouds"

\* Mutant of summary_sky: an overcast layer is looked for before a clear one.
summary_sky_overcast_first(obs) ==
    IF obs.sky = <<>> THEN "Clear skies"
    ELSE IF \E i \in 1..Len(obs.sky) : obs.sky[i].cover = "OVC" THEN "Overcast"
    ELSE IF \E i \in 1..Len(obs.sky) : obs.sky[i].cover \in {"CLR", "SKC"} THEN "Clear skies"
    ELSE IF \E i \in 1..Len(obs.sky) : obs.sky[i].cover \in {"BKN", "SCT"} THEN "Partly cloudy"
    ELSE "Few clouds"

summary_sky(obs) ==
    IF obs.sky = <<>> \/ \E i \in 1..Len(obs.sky) : obs.sky[i].cover \in {"CLR", "SKC"}
    THEN "Clear skies"
    ELSE IF \E i \in 1..Len(obs.sky) : obs.sky[i].cover = "OVC" THEN "Overcast"
    ELSE IF \E i \in 1..Len(obs.sky) : obs.sky[i].cover \in {"BKN", "SCT"} THEN "Partly cloudy"
    ELSE "Few clouds"

\* Mutant of summary_wind: only a speed of 0 mph is calm.
summary_wind_zero_only(obs) ==
    IF obs.wind_speed.present
    THEN IF obs.wind_speed.mph = 0 THEN "calm winds"
         ELSE LET direction == IF obs.wind_dir.present
                               THEN "from the " \o degrees_to_direction(obs.wind_dir.v)
                               ELSE "variable direction"
              IN  "winds " \o fmt0(obs.wind_speed.mph) \o " mph " \o direction
    ELSE "calm winds"

summary_wind(obs) ==
    IF obs.wind_speed.present
    THEN IF obs.wind_speed.mph < 100 THEN "calm winds"
         ELSE LET direction == IF obs.wind_dir.present
                               THEN "from the " \o degrees_to_direction(obs.wind_dir.v)
                               ELSE "variable direction"
              IN  "winds " \o fmt0(obs.wind_speed.mph) \o " mph " \o direction
    ELSE "calm winds"

\* temp_f = temp_c * 9/5 + 32, in hundredths of a degree, times 5.
fahrenheit_x5(c) == 9 * c + 16000

fmt_fahrenheit(c) ==
    LET n == fahrenheit_x5(c)
        r == RoundHalfEven(n, 500)
    IN  IF r = 0 /\ n < 0 THEN "-0" ELSE ToString(r)

\* Mutant of summary_parts: the weather segment is put before the wind.
summary_parts_weather_first(obs) ==
    <<summary_sky(obs)>>
    \o (IF obs.temp.present THEN <<fmt_fahrenheit(obs.temp.v) \o "°F">> ELSE <<>>)
    \o (IF obs.weather # <<>>
        THEN <<join(", ", [i \in 1..Len(obs.weather) |-> lower(obs.weather[i])])>>
        ELSE <<>>)
    \o <<summary_wind(obs)>>

summary_parts(obs) ==
    <<summary_sky(obs)>>
    \o (IF obs.temp.present THEN <<fmt_fahrenheit(obs.temp.v) \o "°F">> ELSE <<>>)
    \o <<summary_wind(obs)>>
    \o (IF obs.weather # <<>>
        THEN <<join(", ", [i \in 1..Len(obs.weather) |-> lower(obs.weather[i])])>>
        ELSE <<>>)

create_summary(obs) == join(", ", summary_parts(obs)) \o "."

pad2(n) == IF n < 10 THEN "0" \o ToString(n) ELSE ToString(n)

\* obs.time.strftime('%Y-%m-%d %H:%M UTC') if obs.time else 'Unknown'
format_time(t) ==
    IF t.present
    THEN ToString(t.year) \o "-" \o pad2(t.month) \o "-" \o pad2(t.day) \o " "
         \o pad2(t.hour) \o ":" \o pad2(t.minute) \o " UTC"
    ELSE "Unknown"

\* The lines of the optional fields; "" stands for no line.
temperature_line(obs) ==
    IF obs.temp.present
    THEN "Temperature: " \o fmt_fahrenheit(obs.temp.v) \o "°F (" \o fmt0(obs.temp.v) \o "°C)"
    ELSE ""

dewpoint_line(obs) ==
    IF obs.dewpt.present
    THEN "Dew point: " \o fmt_fahrenheit(obs.dewpt.v) \o "°F (" \o fmt0(obs.dewpt.v) \o "°C)"
    ELSE ""

\* Mutant of visibility_line: the branch is chosen on the value rounded to one
\* decimal.
visibility_line_rounded_branch(obs) ==
    IF obs.vis.present
    THEN IF RoundHalfEven(obs.vis.v, 10) >= 100
         THEN "Visibility: " \o fmt0(obs.vis.v) \o "+ miles (excellent)"
         ELSE "Visibility: " \o fmt1(obs.vis.v) \o " miles"
    ELSE ""

visibility_line(obs) ==
    IF obs.vis.present
    THEN IF obs.vis.v >= 1000
         THEN "Visibility: " \o fmt0(obs.vis.v) \o "+ miles (excellent)"
         ELSE "Visibility: " \o fmt1(obs.vis.v) \o " miles"
    ELSE ""

\* pressure_inhg = pressure_mb * 0.02953, with obs.press.v the hundredths of
\* the number obs.press.value() returns.
pressure_line(obs) ==
    IF obs.press.present
    THEN "Pressure: " \o fmt2(obs.press.v * 2953) \o " inHg (" \o fmt0(obs.press.v) \o " mb)"
    ELSE ""

\* Mutant of description_parts: the sky and wind lines are appended only
\* when sky layers and a wind speed are reported.
description_parts_only_reported(obs) ==
    LET sky_condition == get_sky_condition(obs)
        wind_info == get_wind_info(obs)
        weather == get_weather_phenomena(obs)
    IN  (IF obs.sky # <<>> THEN <<sky_condition>> ELSE <<>>)
        \o (IF obs.temp.present THEN <<temperature_line(obs)>> ELSE <<>>)
        \o (IF obs.dewpt.present THEN <<dewpoint_line(obs)>> ELSE <<>>)
        \o (IF obs.wind_speed.present THEN <<wind_info>> ELSE <<>>)
        \o (IF obs.vis.present THEN <<visibility_line(obs)>> ELSE <<>>)
        \o (IF obs.press.present THEN <<pressure_line(obs)>> ELSE <<>>)
        \o (IF weather # "" THEN <<weather>> ELSE <<>>)

\* Mutant of description_parts: the wind line is appended before the
\* temperature and dew point lines.
description_parts_wind_first(obs) ==
    LET sky_condition == get_sky_condition(obs)
        wind_info == get_wind_info(obs)
        weather == get_weather_phenomena(obs)
    IN  (IF sky_condition # "" THEN <<sky_condition>> ELSE <<>>)
        \o (IF wind_info # "" THEN <<wind_info>> ELSE <<>>)
        \o (IF obs.temp.present THEN <<temperature_line(obs)>> ELSE <<>>)
        \o (IF obs.dewpt.present THEN <<dewpoint_line(obs)>> ELSE <<>>)
        \o (IF obs.vis.present THEN <<visibility_line(obs)>> ELSE <<>>)
        \o (IF obs.press.present THEN <<pressure_line(obs)>> ELSE <<>>)
        \o (IF weather # "" THEN <<weather>> ELSE <<>>)

description_parts(obs) ==
    LET sky_condition == get_sky_condition(obs)
        wind_info == get_wind_info(obs)
        weather == get_weather_phenomena(obs)
    IN  (IF sky_condition # "" THEN <<sky_condition>> ELSE <<>>)
        \o (IF obs.temp.present THEN <<temperature_line(obs)>> ELSE <<>>)
        \o (IF obs.dewpt.present THEN <<dewpoint_line(obs)>> ELSE <<>>)
        \o (IF wind_info # "" THEN <<wind_info>> ELSE <<>>)
        \o (IF obs.vis.present THEN <<visibility_line(obs)>> ELSE <<>>)
        \o (IF obs.press.present THEN <<pressure_line(obs)>> ELSE <<>>)
        \o (IF weather # "" THEN <<weather>> ELSE <<>>)

WeatherReport(obs) ==
    [summary |-> create_summary(obs),
     details |-> description_parts(obs),
     station |-> obs.station_id,
     time    |-> format_time(obs.time)]
NoReport == [summary |-> "", details |-> <<>>, station |-> "", time |-> ""]

(***************************************************************************)
(* Observations and parser outcomes the model draws from.                  *)
(***************************************************************************)
ObsFull ==
    [station_id |-> "KJFK",
     time |-> [present |-> TRUE, year |-> 2026, month |-> 2, day |-> 4, hour |-> 18, minute |-> 51],
     temp |-> Some(-400), dewpt |-> Some(-1700),
     wind_speed |-> Speed(800, 920), wind_dir |-> Some(31000), wind_gust |-> Speed(1500, 1726),
     vis |-> Some(1000), press |-> Some(102743),
     sky |-> <<[cover |-> "FEW", height |-> Some(2500000)], [cover |-> "OVC", height |-> Absent]>>,
     weather |-> <<>>]
ObsRain ==
    [station_id |-> "EGLL",
     time |-> [present |-> TRUE, year |-> 2026, month |-> 11, day |-> 30, hour |-> 6, minute |-> 5],
     temp |-> Some(900), dewpt |-> Some(700),
     wind_speed |-> Speed(1500, 1726), wind_dir |-> Absent, wind_gust |-> NoSpeed,
     vis |-> Some(621), press |-> Some(101500),
     sky |-> <<[cover |-> "SCT", height |-> Some(120000)], [cover |-> "BKN", height |-> Some(250000)]>>,
     weather |-> <<"RA", "Mist">>]
ObsBare ==
    [station_id |-> "VOMM", time |-> NoTime,
     temp |-> Absent, dewpt |-> Absent,
     wind_speed |-> NoSpeed, wind_dir |-> Absent, wind_gust |-> NoSpeed,
     vis |-> Absent, press |-> Absent, sky |-> <<>>, weather |-> <<>>]
Observations == {ObsFull, ObsRain, ObsBare}

ParserMessages ==
    {<<"Unparsed groups in body 'INVALID' while processing 'INVALID'">>,
     <<"Station code not found">>}

\* Metar(metar_string): raises with a message, or returns the observation.
ParseOutcomes ==
    {[ok |-> TRUE, msg |-> <<>>, obs |-> o] : o \in Observations}
    \cup {[ok |-> FALSE, msg |-> m, obs |-> ObsBare] : m \in ParserMessages}

\* Mutant of decode_metar: the re-raised message leaves the parser's text out.
decode_metar_drops_cause(p) ==
    IF p.ok
    THEN [ok |-> TRUE, value |-> WeatherReport(p.obs), exc |-> NoException, parser_calls |-> 1]
    ELSE [ok |-> FALSE, value |-> NoReport,
          exc |-> [cls |-> "Exception", msg |-> <<"Failed to parse METAR">>],
          parser_calls |-> 1]

\* decode_metar on a string the parser answers with outcome p: the report, or
\* the parser's failure re-raised with context.
decode_metar(p) ==
    IF p.ok
    THEN [ok |-> TRUE, value |-> WeatherReport(p.obs), exc |-> NoException, parser_calls |-> 1]
    ELSE [ok |-> FALSE, value |-> NoReport,
          exc |-> [cls |-> "Exception", msg |-> <<"Failed to parse METAR: ">> \o p.msg],
          parser_calls |-> 1]
NoDecode == [ok |-> FALSE, value |-> NoReport, exc |-> NoException, parser_calls |-> 0]

(***************************************************************************)
(* app.py: responses.                                                      *)
(***************************************************************************)
\* Mutant of render_template: error pages go out with status 400.
render_template_error_status(keys, error, code, raw, decoded) ==
    [status |-> IF "error" \in keys THEN 400 ELSE 200, kind |-> "html", keys |-> keys,
     error |-> error, airport_code |-> code, raw_metar |-> raw, decoded |-> decoded]

\* render_template('result.html', **context): an HTML page, status 200.
render_template(keys, error, code, raw, decoded) ==
    [status |-> 200, kind |-> "html", keys |-> keys, error |-> error,
     airport_code |-> code, raw_metar |-> raw, decoded |-> decoded]

\* jsonify(payload), status
jsonify(status, keys, error, code, raw, decoded) ==
    [status |-> status, kind |-> "json", keys |-> keys, error |-> error,
     airport_code |-> code, raw_metar |-> raw, decoded |-> decoded]
NoResponse ==
    [status |-> 0, kind |-> "none", keys |-> {}, error |-> <<>>,
     airport_code |-> <<>>, raw_metar |-> <<>>, decoded |-> NoReport]

\* Mutant of normalize: upper-cases without trimming.
normalize_without_strip(code) == upper(code)

normalize(code) == upper(strip(code))

\* request.form.get('airport_code', '')
form_get(req) == IF req.has_code THEN req.code ELSE <<>>

MsgEnterCode == <<"Please enter an airport code">>
MsgFourChars == <<"Airport code must be 4 characters (e.g., VOMM, KJFK)">>
MsgNoData(code) == <<"No METAR data found for airport code: ">> \o code
MsgFetchFailed(e) == <<"Failed to fetch METAR data: ">> \o e.msg
MsgDecodeFailed(e) == <<"Error decoding METAR: ">> \o e.msg
MsgApiNoData == <<"No METAR data found">>

\* Mutant of validation_error: only codes longer than 4 are rejected.
validation_error_too_long_only(code) ==
    IF code = <<>> THEN MsgEnterCode
    ELSE IF Len(code) > 4 THEN MsgFourChars
    ELSE <<>>

\* get_weather's validation: the error to show, or <<>> when the code passes.
validation_error(code) ==
    IF code = <<>> THEN MsgEnterCode
    ELSE IF Len(code) # 4 THEN MsgFourChars
    ELSE <<>>

\* Mutant of form_no_data: the "Error" prefix is not checked.
form_no_data_without_error(raw) ==
    raw = <<>> \/ startswith(raw, <<"N", "o">>)

\* The no-data checks of the two handlers on the stripped body.
form_no_data(raw) ==
    raw = <<>> \/ startswith(raw, <<"N", "o">>) \/ startswith(raw, <<"E", "r", "r", "o", "r">>)
api_no_data(raw) ==
    raw = <<>> \/ startswith(raw, <<"N", "o">>)

\* Mutant of get_weather_except: the generic clause comes first.
get_weather_except_generic_first(e) ==
    render_template({"error"}, MsgDecodeFailed(e), <<>>, <<>>, NoReport)

\* get_weather's except clauses, in order.
get_weather_except(e) ==
    IF isinstance_RequestException(e)
    THEN render_template({"error"}, MsgFetchFailed(e), <<>>, <<>>, NoReport)
    ELSE render_template({"error"}, MsgDecodeFailed(e), <<>>, <<>>, NoReport)

\* Mutant of api_weather_except: failures answer 404.
api_weather_except_404(e) == jsonify(404, {"error"}, e.msg, <<>>, <<>>, NoReport)

\* api_weather's except clause.
api_weather_except(e) == jsonify(500, {"error"}, e.msg, <<>>, <<>>, NoReport)

get_weather_result(code, raw, decoded) ==
    render_template({"airport_code", "raw_metar", "decoded"}, <<>>, code, raw, decoded)
\* Mutant of api_weather_result: the raw report is left out of the payload.
api_weather_result_without_raw(code, raw, decoded) ==
    jsonify(200, {"airport_code", "decoded"}, <<>>, code, <<>>, decoded)

api_weather_result(code, raw, decoded) ==
    jsonify(200, {"airport_code", "raw_metar", "decoded"}, <<>>, code, raw, decoded)

(***************************************************************************)
(* State: one request at a time, as a request-per-call server handles it.  *)
(* pc is the handler's position; fetch_* and decode_* record the calls the *)
(* handler made to the fetch gateway and to decode_metar for this request. *)
(***************************************************************************)
VARIABLES pc, request, airport_code, fetch_calls, fetch_ids, fetch_outcome,
          metar_raw, decode_calls, decode_arg, parse_outcome, decode_outcome,
          response

vars == <<pc, request, airport_code, fetch_calls, fetch_ids, fetch_outcome,
          metar_raw, decode_calls, decode_arg, parse_outcome, decode_outcome,
          response>>

NoParse == [ok |-> FALSE, msg |-> <<>>, obs |-> ObsBare]

Init ==
    /\ pc = "idle"
    /\ request = NoRequest
    /\ airport_code = <<>>
    /\ fetch_calls = 0
    /\ fetch_ids = <<>>
    /\ fetch_outcome = NoFetch
    /\ metar_raw = <<>>
    /\ decode_calls = 0
    /\ decode_arg = <<>>
    /\ parse_outcome = NoParse
    /\ decode_outcome = NoDecode
    /\ response = NoResponse

\* The server hands a request to its handler.
Receive ==
    /\ pc = "idle"
    /\ \E req \in Requests :
        /\ request' = req
        /\ pc' = IF req.endpoint = "form" THEN "form_validate" ELSE "api_normalize"
    /\ UNCHANGED <<airport_code, fetch_calls, fetch_ids, fetch_outcome, metar_raw,
                   decode_calls, decode_arg, parse_outcome, decode_outcome, response>>

\* The handler has returned: the response goes out and the request's values
\* are discarded.
Respond ==
    /\ pc = "done"
    /\ pc' = "idle"
    /\ request' = NoRequest
    /\ airport_code' = <<>>
    /\ fetch_calls' = 0
    /\ fetch_ids' = <<>>
    /\ fetch_outcome' = NoFetch
    /\ metar_raw' = <<>>
    /\ decode_calls' = 0
    /\ decode_arg' = <<>>
    /\ parse_outcome' = NoParse
    /\ decode_outcome' = NoDecode
    /\ response' = NoResponse

\* get_weather: normalise the form field and validate it.
FormValidate ==
    /\ pc = "form_validate"
    /\ airport_code' = normalize(form_get(request))
    /\ LET error == validation_error(airport_code')
       IN  IF error # <<>>
           THEN /\ response' = render_template({"error"}, error, <<>>, <<>>, NoReport)
                /\ pc' = "done"
           ELSE /\ response' = response
                /\ pc' = "form_fetch"
    /\ UNCHANGED <<request, fetch_calls, fetch_ids, fetch_outcome, metar_raw,
                   decode_calls, decode_arg, parse_outcome, decode_outcome>>

\* get_weather: requests.get is called with ids = airport_code.  The handler
\* then waits inside the call, until the answer or the timeout, with nothing
\* assigned yet.
FormFetchCall ==
    /\ pc = "form_fetch"
    /\ fetch_calls' = fetch_calls + 1
    /\ fetch_ids' = airport_code
    /\ pc' = "form_fetching"
    /\ UNCHANGED <<request, airport_code, fetch_outcome, metar_raw, decode_calls,
                   decode_arg, parse_outcome, decode_outcome, response>>

\* Mutant of FormFetchReturn: a failed fetch is tried again.
FormFetchReturn_retry ==
    /\ pc = "form_fetching"
    /\ \E out \in FetchOutcomes :
        /\ fetch_outcome' = out
        /\ IF out.ok
           THEN /\ metar_raw' = strip(out.body)
                /\ pc' = "form_check"
           ELSE /\ metar_raw' = metar_raw
                /\ pc' = "form_fetch"
    /\ response' = response
    /\ UNCHANGED <<request, airport_code, fetch_calls, fetch_ids, decode_calls,
                   decode_arg, parse_outcome, decode_outcome>>

\* get_weather: requests.get returns or raises, then raise_for_status and
\* response.text.strip(); a failure goes to the except clauses.
FormFetchReturn ==
    /\ pc = "form_fetching"
    /\ \E out \in FetchOutcomes :
        /\ fetch_outcome' = out
        /\ IF out.ok
           THEN /\ metar_raw' = strip(out.body)
                /\ response' = response
                /\ pc' = "form_check"
           ELSE /\ metar_raw' = metar_raw
                /\ response' = get_weather_except(out.exc)
                /\ pc' = "done"
    /\ UNCHANGED <<request, airport_code, fetch_calls, fetch_ids, decode_calls,
                   decode_arg, parse_outcome, decode_outcome>>

\* get_weather: the no-data check on the stripped body.
FormCheck ==
    /\ pc = "form_check"
    /\ IF form_no_data(metar_raw)
       THEN /\ response' = render_template({"error"}, MsgNoData(airport_code),
                                           <<>>, <<>>, NoReport)
            /\ pc' = "done"
       ELSE /\ response' = response
            /\ pc' = "form_decode"
    /\ UNCHANGED <<request, airport_code, fetch_calls, fetch_ids, fetch_outcome,
                   metar_raw, decode_calls, decode_arg, parse_outcome, decode_outcome>>

\* get_weather: decode_metar(metar_raw), then the result page or the error page.
FormDecode ==
    /\ pc = "form_decode"
    /\ \E p \in ParseOutcomes :
        /\ parse_outcome' = p
        /\ decode_outcome' = decode_metar(p)
        /\ response' = IF decode_outcome'.ok
                       THEN get_weather_result(airport_code, metar_raw, decode_outcome'.value)
                       ELSE get_weather_except(decode_outcome'.exc)
    /\ decode_calls' = decode_calls + 1
    /\ decode_arg' = metar_raw
    /\ pc' = "done"
    /\ UNCHANGED <<request, airport_code, fetch_calls, fetch_ids, fetch_outcome, metar_raw>>

\* api_weather: normalise the path segment.
ApiNormalize ==
    /\ pc = "api_normalize"
    /\ airport_code' = normalize(request.code)
    /\ pc' = "api_fetch"
    /\ UNCHANGED <<request, fetch_calls, fetch_ids, fetch_outcome, metar_raw,
                   decode_calls, decode_arg, parse_outcome, decode_outcome, response>>

\* api_weather: requests.get is called with ids = airport_code.  The handler
\* then waits inside the call, until the answer or the timeout, with nothing
\* assigned yet.
ApiFetchCall ==
    /\ pc = "api_fetch"
    /\ fetch_calls' = fetch_calls + 1
    /\ fetch_ids' = airport_code
    /\ pc' = "api_fetching"
    /\ UNCHANGED <<request, airport_code, fetch_outcome, metar_raw, decode_calls,
                   decode_arg, parse_outcome, decode_outcome, response>>

\* api_weather: requests.get returns or raises, then raise_for_status and
\* response.text.strip(); a failure goes to the except clause.
ApiFetchReturn ==
    /\ pc = "api_fetching"
    /\ \E out \in FetchOutcomes :
        /\ fetch_outcome' = out
        /\ IF out.ok
           THEN /\ metar_raw' = strip(out.body)
                /\ response' = response
                /\ pc' = "api_check"
           ELSE /\ metar_raw' = metar_raw
                /\ response' = api_weather_except(out.exc)
                /\ pc' = "done"
    /\ UNCHANGED <<request, airport_code, fetch_calls, fetch_ids, decode_calls,
                   decode_arg, parse_outcome, decode_outcome>>

\* api_weather: the no-data check on the stripped body.
ApiCheck ==
    /\ pc = "api_check"
    /\ IF api_no_data(metar_raw)
       THEN /\ response' = jsonify(404, {"error"}, MsgApiNoData, <<>>, <<>>, NoReport)
            /\ pc' = "done"
       ELSE /\ response' = response
            /\ pc' = "api_decode"
    /\ UNCHANGED <<request, airport_code, fetch_calls, fetch_ids, fetch_outcome,
                   metar_raw, decode_calls, decode_arg, parse_outcome, decode_outcome>>

\* api_weather: decode_metar(metar_raw), then the JSON result or the 500.
ApiDecode ==
    /\ pc = "api_decode"
    /\ \E p \in ParseOutcomes :
        /\ parse_outcome' = p
        /\ decode_outcome' = decode_metar(p)
        /\ response' = IF decode_outcome'.ok
                       THEN api_weather_result(airport_code, metar_raw, decode_outcome'.value)
                       ELSE api_weather_except(decode_outcome'.exc)
    /\ decode_calls' = decode_calls + 1
    /\ decode_arg' = metar_raw
    /\ pc' = "done"
    /\ UNCHANGED <<request, airport_code, fetch_calls, fetch_ids, fetch_outcome, metar_raw>>

Next ==
    \/ Receive
    \/ FormValidate
    \/ FormFetchCall
    \/ FormFetchReturn
    \/ FormCheck
    \/ FormDecode
    \/ ApiNormalize
    \/ ApiFetchCall
    \/ ApiFetchReturn
    \/ ApiCheck
    \/ ApiDecode
    \/ Respond

Spec == Init /\ [][Next]_vars

(***************************************************************************)
(* decode_metar called on its own, as test_metar.py and the handlers do,   *)
(* over families of observations: each family varies one field of the      *)
(* observation over a bounded range and leaves the others absent.          *)
(***************************************************************************)
MaxDirection == 360
MaxVisibility == 12
MaxTemperature == 50
MaxSkyLayers == 2
MaxKnots == 40
MaxMps == 20
MaxKmh == 70

\* obs.wind_speed.value("MPH") of a speed reported in knots, in hundredths:
\* the parser library converts through metres per second (0.514444 m/s per
\* knot, 0.447 m/s per mph).  The code formats and compares the unrounded
\* quotient, so the hundredths are cut off, never rounded, and a quotient
\* that lies above a half is kept above it: the number of hundredths then
\* compares with 1 mph and rounds to whole mph as the quotient itself does
\* (no quotient of a speed other than 0 is a whole number of hundredths).
knots_to_mph(kt) ==
    LET q == (kt * 128611) \div 111750
    IN  IF q % 100 = 50 THEN q + 1 ELSE q

\* The observation of the module docstring's example report: the altimeter
\* group A3034 is held in inches of mercury, and obs.press.value() returns the
\* number in the unit it is held in.
ObsKJFK ==
    [station_id |-> "KJFK",
     time |-> [present |-> TRUE, year |-> 2026, month |-> 2, day |-> 4, hour |-> 18, minute |-> 51],
     temp |-> Some(-400), dewpt |-> Some(-1700),
     wind_speed |-> Speed(800, knots_to_mph(800)), wind_dir |-> Some(31000),
     wind_gust |-> NoSpeed,
     vis |-> Some(1000), press |-> Some(3034),
     sky |-> <<[cover |-> "FEW", height |-> Some(2500000)]>>,
     weather |-> <<>>]

\* The observation of the tests' sample report MOCK_METAR_VOMM: wind 090 at 5
\* knots, visibility 8000 metres (4.97 statute miles), FEW at 2000 feet and
\* SCT at 10000 feet, 32/24 degrees, Q1010 held in millibars.
BodyVOMM == <<"V", "O", "M", "M", " ", "0", "4", "1", "8", "3", "0", "Z", " ", "0", "9", "0", "0", "5", "K", "T", " ", "8", "0", "0", "0", " ", "F", "E", "W", "0", "2", "0", " ", "S", "C", "T", "1", "0", "0", " ", "3", "2", "/", "2", "4", " ", "Q", "1", "0", "1", "0">>
ObsVOMM ==
    [station_id |-> "VOMM",
     time |-> [present |-> TRUE, year |-> 2026, month |-> 2, day |-> 4, hour |-> 18, minute |-> 30],
     temp |-> Some(3200), dewpt |-> Some(2400),
     wind_speed |-> Speed(500, knots_to_mph(500)), wind_dir |-> Some(9000),
     wind_gust |-> NoSpeed,
     vis |-> Some(497), press |-> Some(101000),
     sky |-> <<[cover |-> "FEW", height |-> Some(200000)],
               [cover |-> "SCT", height |-> Some(1000000)]>>,
     weather |-> <<>>]

DirectionObs ==
    {[ObsBare EXCEPT !.wind_speed = Speed(800, knots_to_mph(800)), !.wind_dir = Some(d)] :
        d \in 0..(100 * MaxDirection)}

VisibilityObs == {[ObsBare EXCEPT !.vis = Some(v)] : v \in 0..(100 * MaxVisibility)}

TemperatureObs ==
    {[ObsBare EXCEPT !.temp = Some(100 * c)] : c \in (-MaxTemperature)..MaxTemperature}
    \cup {[ObsBare EXCEPT !.dewpt = Some(100 * c)] : c \in (-MaxTemperature)..MaxTemperature}

SkyCovers == {"CLR", "SKC", "FEW", "SCT", "BKN", "OVC", "VV", "///"}
SkyHeights == {Absent, Some(0), Some(2500000)}
SkyLayers == [cover : SkyCovers, height : SkyHeights]
SkyObs == {[ObsBare EXCEPT !.sky = layers] : layers \in BoundedSeq(SkyLayers, MaxSkyLayers)}

\* The hundredths of n * (k + num/den), cut off as in knots_to_mph.
speed_value(n, k, num, den) ==
    LET q == n * k + (n * num) \div den
    IN  IF q % 100 = 50 /\ (n * num) % den # 0 THEN q + 1 ELSE q

\* The speeds of a wind group: the parser reads a whole number of knots,
\* metres per second or kilometres per hour, and value("KT") and value("MPH")
\* convert it through metres per second (3.6 km/h, 1/0.514444 knots and
\* 1/0.447 mph per m/s): 100/0.514444 = 194 + 49466/128611, 100/0.447 =
\* 223 + 319/447, 100/(3.6 * 0.514444) = 53 + 1152553/1157499 and
\* 100/(3.6 * 0.447) = 62 + 574/4023.
KnotsSpeed(n) == Speed(100 * n, knots_to_mph(100 * n))
MpsSpeed(n) == Speed(speed_value(n, 194, 49466, 128611), speed_value(n, 223, 319, 447))
KmhSpeed(n) == Speed(speed_value(n, 53, 1152553, 1157499), speed_value(n, 62, 574, 4023))

WindSpeeds ==
    {NoSpeed} \cup {KnotsSpeed(n) : n \in 0..MaxKnots}
              \cup {MpsSpeed(n) : n \in 0..MaxMps}
              \cup {KmhSpeed(n) : n \in 0..MaxKmh}
WindObs ==
    {[ObsBare EXCEPT !.wind_speed = speed, !.wind_dir = dir, !.wind_gust = gust] :
        speed \in WindSpeeds,
        dir \in {Absent, Some(0), Some(31000)},
        gust \in {NoSpeed, Speed(1500, knots_to_mph(1500))}}

\* Every combination of present and absent fields.
PresenceObs ==
    {[ObsBare EXCEPT !.sky = sky, !.temp = temp, !.dewpt = dewpt, !.wind_speed = speed,
                     !.vis = vis, !.press = press, !.weather = weather] :
        sky \in {<<>>, <<[cover |-> "BKN", height |-> Some(250000)]>>},
        temp \in {Absent, Some(0), Some(900)},
        dewpt \in {Absent, Some(700)},
        speed \in {NoSpeed, Speed(0, 0), Speed(1500, knots_to_mph(1500))},
        vis \in {Absent, Some(0), Some(621)},
        press \in {Absent, Some(101500)},
        weather \in {<<>>, <<"RA">>, <<"Rain", "Mist">>}}

\* Pressures held in millibars (whole, or with tenths as a converted inch
\* reading has), in inches, and the pressures of 500 mb and up at which the
\* product with 0.02953 is a decimal tie.
PressureObs ==
    {[ObsBare EXCEPT !.press = Some(v)] :
        v \in {100 * mb : mb \in 990..1040} \cup {2992, 3034, 101325, 102743}
               \cup {50000, 150000, 250000, 350000, 450000}}

\* The families of observations a call is made on.
DecodeObservations ==
    <<DirectionObs, VisibilityObs, TemperatureObs, SkyObs, WindObs, PresenceObs,
      PressureObs, {ObsFull, ObsRain}>>

\* A raw report whose text is not modelled: the parser answers it with the
\* observation or the failure it is paired with.
SomeReport == <<"*">>

\* The raw report and the parser's answer to it: an observation of one of the
\* families, the example report and its observation, or a failure.
DecodeInput(raw, p) ==
    \/ /\ raw = SomeReport
       /\ \E i \in 1..Len(DecodeObservations) : \E o \in DecodeObservations[i] :
            p = [ok |-> TRUE, msg |-> <<>>, obs |-> o]
    \/ /\ raw = BodyKJFK
       /\ p = [ok |-> TRUE, msg |-> <<>>, obs |-> ObsKJFK]
    \/ /\ raw = BodyVOMM
       /\ p = [ok |-> TRUE, msg |-> <<>>, obs |-> ObsVOMM]
    \/ /\ raw = BodyGarbage
       /\ \E m \in ParserMessages : p = [ok |-> FALSE, msg |-> m, obs |-> ObsBare]

DecodeInit ==
    /\ pc = "decode_call"
    /\ DecodeInput(decode_arg, parse_outcome)
    /\ request = NoRequest
    /\ airport_code = <<>>
    /\ fetch_calls = 0
    /\ fetch_ids = <<>>
    /\ fetch_outcome = NoFetch
    /\ metar_raw = <<>>
    /\ decode_calls = 0
    /\ decode_outcome = NoDecode
    /\ response = NoResponse

\* decode_metar(metar_string): the report, or the parser's failure re-raised.
DecodeCall ==
    /\ pc = "decode_call"
    /\ decode_outcome' = decode_metar(parse_outcome)
    /\ decode_calls' = decode_calls + 1
    /\ pc' = "decoded"
    /\ UNCHANGED <<request, airport_code, fetch_calls, fetch_ids, fetch_outcome,
                   metar_raw, decode_arg, parse_outcome, response>>

DecodeNext == DecodeCall

DecodeSpec == DecodeInit /\ [][DecodeNext]_vars

(***************************************************************************)
(* Concurrent requests.  The server runs each request in its own           *)
(* invocation of a handler; the handlers and the decoder keep everything   *)
(* in local variables, so under this specification every variable maps a   *)
(* worker to the value the variable has in that worker's invocation.  The  *)
(* module-level names of app.py (app, METAR_API_URL) are never assigned    *)
(* after import.                                                           *)
(***************************************************************************)
MaxWorkers == 2
Workers == 1..MaxWorkers

ConcRequests ==
    {[endpoint |-> "form", has_code |-> TRUE, code |-> <<"k", "k", "k", "k">>],
     [endpoint |-> "form", has_code |-> TRUE, code |-> <<"k">>],
     [endpoint |-> "api", has_code |-> TRUE, code |-> <<"k", "k", "k", "k">>]}
ConcFetchOutcomes ==
    {[ok |-> TRUE, body |-> BodyKJFK, exc |-> NoException],
     [ok |-> TRUE, body |-> BodyNoValid, exc |-> NoException],
     [ok |-> FALSE, body |-> <<>>, exc |-> [cls |-> "ConnectionError", msg |-> <<"Connection refused">>]]}
ConcParseOutcomes ==
    {[ok |-> TRUE, msg |-> <<>>, obs |-> ObsKJFK],
     [ok |-> FALSE, msg |-> <<"Station code not found">>, obs |-> ObsBare]}

\* The local variables of worker w's invocation.
Local(w) ==
    [pc |-> pc[w], request |-> request[w], airport_code |-> airport_code[w],
     fetch_calls |-> fetch_calls[w], fetch_ids |-> fetch_ids[w],
     fetch_outcome |-> fetch_outcome[w], metar_raw |-> metar_raw[w],
     decode_calls |-> decode_calls[w], decode_arg |-> decode_arg[w],
     parse_outcome |-> parse_outcome[w], decode_outcome |-> decode_outcome[w],
     response |-> response[w]]

\* The local variables before a request is received.
IdleLocal ==
    [pc |-> "idle", request |-> NoRequest, airport_code |-> <<>>,
     fetch_calls |-> 0, fetch_ids |-> <<>>, fetch_outcome |-> NoFetch, metar_raw |-> <<>>,
     decode_calls |-> 0, decode_arg |-> <<>>, parse_outcome |-> NoParse,
     decode_outcome |-> NoDecode, response |-> NoResponse]

\* A step of worker w assigns local variables of its own invocation only.
Assign(w, l) ==
    /\ pc' = [pc EXCEPT ![w] = l.pc]
    /\ request' = [request EXCEPT ![w] = l.request]
    /\ airport_code' = [airport_code EXCEPT ![w] = l.airport_code]
    /\ fetch_calls' = [fetch_calls EXCEPT ![w] = l.fetch_calls]
    /\ fetch_ids' = [fetch_ids EXCEPT ![w] = l.fetch_ids]
    /\ fetch_outcome' = [fetch_outcome EXCEPT ![w] = l.fetch_outcome]
    /\ metar_raw' = [metar_raw EXCEPT ![w] = l.metar_raw]
    /\ decode_calls' = [decode_calls EXCEPT ![w] = l.decode_calls]
    /\ decode_arg' = [decode_arg EXCEPT ![w] = l.decode_arg]
    /\ parse_outcome' = [parse_outcome EXCEPT ![w] = l.parse_outcome]
    /\ decode_outcome' = [decode_outcome EXCEPT ![w] = l.decode_outcome]
    /\ response' = [response EXCEPT ![w] = l.response]

ConcInit ==
    /\ pc = [w \in Workers |-> IdleLocal.pc]
    /\ request = [w \in Workers |-> IdleLocal.request]
    /\ airport_code = [w \in Workers |-> IdleLocal.airport_code]
    /\ fetch_calls = [w \in Workers |-> IdleLocal.fetch_calls]
    /\ fetch_ids = [w \in Workers |-> IdleLocal.fetch_ids]
    /\ fetch_outcome = [w \in Workers |-> IdleLocal.fetch_outcome]
    /\ metar_raw = [w \in Workers |-> IdleLocal.metar_raw]
    /\ decode_calls = [w \in Workers |-> IdleLocal.decode_calls]
    /\ decode_arg = [w \in Workers |-> IdleLocal.decode_arg]
    /\ parse_outcome = [w \in Workers |-> IdleLocal.parse_outcome]
    /\ decode_outcome = [w \in Workers |-> IdleLocal.decode_outcome]
    /\ response = [w \in Workers |-> IdleLocal.response]

\* get_weather run on its own: the response to request req when the gateway
\* answers with outcome out and the parser with outcome p.
get_weather(req, out, p) ==
    LET code == normalize(form_get(req))
        error == validation_error(code)
        raw == strip(out.body)
        decoded == decode_metar(p)
    IN  IF error # <<>> THEN render_template({"error"}, error, <<>>, <<>>, NoReport)
        ELSE IF ~out.ok THEN get_weather_except(out.exc)
        ELSE IF form_no_data(raw)
        THEN render_template({"error"}, MsgNoData(code), <<>>, <<>>, NoReport)
        ELSE IF decoded.ok THEN get_weather_result(code, raw, decoded.value)
        ELSE get_weather_except(decoded.exc)

\* api_weather run on its own.
api_weather(req, out, p) ==
    LET code == normalize(req.code)
        raw == strip(out.body)
        decoded == decode_metar(p)
    IN  IF ~out.ok THEN api_weather_except(out.exc)
        ELSE IF api_no_data(raw)
        THEN jsonify(404, {"error"}, MsgApiNoData, <<>>, <<>>, NoReport)
        ELSE IF decoded.ok THEN api_weather_result(code, raw, decoded.value)
        ELSE api_weather_except(decoded.exc)

\* The server hands a request to a handler invocation of worker w.
ConcReceive(w) ==
    /\ pc[w] = "idle"
    /\ \E req \in ConcRequests :
        Assign(w, [Local(w) EXCEPT
                     !.request = req,
                     !.pc = IF req.endpoint = "form" THEN "form_validate" ELSE "api_normalize"])

\* The handler has returned: the response goes out and the invocation's
\* values are discarded.
ConcRespond(w) ==
    /\ pc[w] = "done"
    /\ Assign(w, IdleLocal)

\* get_weather: normalise the form field and validate it.
ConcFormValidate(w) ==
    /\ pc[w] = "form_validate"
    /\ LET l == Local(w)
           code == normalize(form_get(l.request))
           error == validation_error(code)
       IN  Assign(w, IF error # <<>>
                     THEN [l EXCEPT !.airport_code = code, !.pc = "done",
                                    !.response = render_template({"error"}, error, <<>>, <<>>, NoReport)]
                     ELSE [l EXCEPT !.airport_code = code, !.pc = "form_fetch"])

\* get_weather: requests.get is called with ids = airport_code.  The
\* invocation then waits inside the call, nothing assigned yet, while other
\* invocations run.
ConcFormFetchCall(w) ==
    /\ pc[w] = "form_fetch"
    /\ Assign(w, [Local(w) EXCEPT !.fetch_calls = @ + 1,
                                  !.fetch_ids = airport_code[w],
                                  !.pc = "form_fetching"])

\* get_weather: requests.get returns or raises, then raise_for_status and
\* response.text.strip().
ConcFormFetchReturn(w) ==
    /\ pc[w] = "form_fetching"
    /\ \E out \in ConcFetchOutcomes :
        LET l == [Local(w) EXCEPT !.fetch_outcome = out]
        IN  Assign(w, IF out.ok
                      THEN [l EXCEPT !.metar_raw = strip(out.body), !.pc = "form_check"]
                      ELSE [l EXCEPT !.response = get_weather_except(out.exc), !.pc = "done"])

\* get_weather: the no-data check on the stripped body.
ConcFormCheck(w) ==
    /\ pc[w] = "form_check"
    /\ LET l == Local(w)
       IN  Assign(w, IF form_no_data(l.metar_raw)
                     THEN [l EXCEPT !.pc = "done",
                                    !.response = render_template({"error"}, MsgNoData(l.airport_code),
                                                                 <<>>, <<>>, NoReport)]
                     ELSE [l EXCEPT !.pc = "form_decode"])

\* get_weather: decode_metar(metar_raw), then the result page or the error page.
ConcFormDecode(w) ==
    /\ pc[w] = "form_decode"
    /\ \E p \in ConcParseOutcomes :
        LET l == Local(w)
            decoded == decode_metar(p)
        IN  Assign(w, [l EXCEPT
                         !.parse_outcome = p,
                         !.decode_outcome = decoded,
                         !.decode_calls = @ + 1,
                         !.decode_arg = l.metar_raw,
                         !.pc = "done",
                         !.response = IF decoded.ok
                                      THEN get_weather_result(l.airport_code, l.metar_raw, decoded.value)
                                      ELSE get_weather_except(decoded.exc)])

\* api_weather: normalise the path segment.
ConcApiNormalize(w) ==
    /\ pc[w] = "api_normalize"
    /\ Assign(w, [Local(w) EXCEPT !.airport_code = normalize(request[w].code),
                                  !.pc = "api_fetch"])

\* Mutant of ConcApiFetchCall: a report another invocation has fetched for
\* the same airport code is used instead of a call.
ConcApiFetchCall_cached(w) ==
    /\ pc[w] = "api_fetch"
    /\ IF \E o \in Workers \ {w} : fetch_outcome[o].ok /\ fetch_ids[o] = airport_code[w]
       THEN LET o == CHOOSE o \in Workers \ {w} :
                        fetch_outcome[o].ok /\ fetch_ids[o] = airport_code[w]
            IN  Assign(w, [Local(w) EXCEPT !.metar_raw = strip(fetch_outcome[o].body),
                                           !.pc = "api_check"])
       ELSE Assign(w, [Local(w) EXCEPT !.fetch_calls = @ + 1,
                                       !.fetch_ids = airport_code[w],
                                       !.pc = "api_fetching"])

\* api_weather: requests.get is called with ids = airport_code.  The
\* invocation then waits inside the call, nothing assigned yet, while other
\* invocations run.
ConcApiFetchCall(w) ==
    /\ pc[w] = "api_fetch"
    /\ Assign(w, [Local(w) EXCEPT !.fetch_calls = @ + 1,
                                  !.fetch_ids = airport_code[w],
                                  !.pc = "api_fetching"])

\* api_weather: requests.get returns or raises, then raise_for_status and
\* response.text.strip().
ConcApiFetchReturn(w) ==
    /\ pc[w] = "api_fetching"
    /\ \E out \in ConcFetchOutcomes :
        LET l == [Local(w) EXCEPT !.fetch_outcome = out]
        IN  Assign(w, IF out.ok
                      THEN [l EXCEPT !.metar_raw = strip(out.body), !.pc = "api_check"]
                      ELSE [l EXCEPT !.response = api_weather_except(out.exc), !.pc = "done"])

\* api_weather: the no-data check on the stripped body.
ConcApiCheck(w) ==
    /\ pc[w] = "api_check"
    /\ LET l == Local(w)
       IN  Assign(w, IF api_no_data(l.metar_raw)
                     THEN [l EXCEPT !.pc = "done",
                                    !.response = jsonify(404, {"error"}, MsgApiNoData,
                                                         <<>>, <<>>, NoReport)]
                     ELSE [l EXCEPT !.pc = "api_decode"])

\* api_weather: decode_metar(metar_raw), then the JSON result or the 500.
ConcApiDecode(w) ==
    /\ pc[w] = "api_decode"
    /\ \E p \in ConcParseOutcomes :
        LET l == Local(w)
            decoded == decode_metar(p)
        IN  Assign(w, [l EXCEPT
                         !.parse_outcome = p,
                         !.decode_outcome = decoded,
                         !.decode_calls = @ + 1,
                         !.decode_arg = l.metar_raw,
                         !.pc = "done",
                         !.response = IF decoded.ok
                                      THEN api_weather_result(l.airport_code, l.metar_raw, decoded.value)
                                      ELSE api_weather_except(decoded.exc)])

ConcNext ==
    \E w \in Workers :
        \/ ConcReceive(w)
        \/ ConcFormValidate(w)
        \/ ConcFormFetchCall(w)
        \/ ConcFormFetchReturn(w)
        \/ ConcFormCheck(w)
        \/ ConcFormDecode(w)
        \/ ConcApiNormalize(w)
        \/ ConcApiFetchCall(w)
        \/ ConcApiFetchReturn(w)
        \/ ConcApiCheck(w)
        \/ ConcApiDecode(w)
        \/ ConcRespond(w)

ConcSpec == ConcInit /\ [][ConcNext]_vars

(***************************************************************************)
(* Properties.  The claims are stated over the request's input and the     *)
(* calls and response recorded for it.                                     *)
(***************************************************************************)
IsForm == request.endpoint = "form"
IsApi == request.endpoint = "api"

\* The input code trimmed and upper-cased, and the stripped fetched body.
NormalizedInput == upper(strip(form_get(request)))
StrippedBody == strip(fetch_outcome.body)
\* The fetch has been called and has not returned or raised yet.
FetchInFlight == fetch_calls = 1 /\ fetch_outcome = NoFetch
FetchReturned == fetch_calls = 1 /\ fetch_outcome.ok
FetchRaised == fetch_calls = 1 /\ ~FetchInFlight /\ ~fetch_outcome.ok
DecodeRaised == decode_calls = 1 /\ ~decode_outcome.ok
DecodeReturned == decode_calls = 1 /\ decode_outcome.ok

\* "No data available": a body that is empty or begins with "No" or "Error".
NoDataBody(raw) ==
    \/ raw = <<>>
    \/ startswith(raw, <<"N", "o">>)
    \/ startswith(raw, <<"E", "r", "r", "o", "r">>)

\* C1: on the JSON endpoint, a fetch that returns a body which, stripped, is
\* empty or begins with "No" or "Error" ends in HTTP 404 with an error
\* field, and decode_metar is never invoked for that request.
C1_ApiNoDataIs404 ==
    (IsApi /\ FetchReturned /\ NoDataBody(StrippedBody)) =>
        /\ decode_calls = 0
        /\ pc = "done" => (response.status = 404 /\ "error" \in response.keys)

\* C2: on the form endpoint a code that, trimmed and upper-cased, is empty or
\* not 4 characters long gets the matching validation error, and neither the
\* fetch gateway nor decode_metar is called in that request.
C2_ValidationPrecedesFetch ==
    (IsForm /\ Len(NormalizedInput) # 4) =>
        /\ fetch_calls = 0
        /\ decode_calls = 0
        /\ pc \in {"form_validate", "done"}
        /\ pc = "done" =>
            /\ response.status = 200
            /\ response.keys = {"error"}
            /\ response.error =
                 IF NormalizedInput = <<>>
                 THEN <<"Please enter an airport code">>
                 ELSE <<"Airport code must be 4 characters (e.g., VOMM, KJFK)">>

\* A 4-character field whose trimmed form is shorter is rejected without a fetch.
C2_Witness ==
    /\ IsForm /\ pc = "done"
    /\ Len(request.code) = 4 /\ Len(NormalizedInput) = 3
    /\ response.error = <<"Airport code must be 4 characters (e.g., VOMM, KJFK)">>
    /\ fetch_calls = 0

\* C3: on the form endpoint, after a fetch that returned, a stripped body that
\* is empty or begins with "No" or "Error" gives the error "No METAR data
\* found for airport code: <code>" without invoking decode_metar; any other
\* body has decode_metar invoked.
C3_FormNoData ==
    (IsForm /\ FetchReturned) =>
        IF NoDataBody(StrippedBody)
        THEN /\ decode_calls = 0
             /\ pc \in {"form_check", "done"}
             /\ pc = "done" =>
                  response.error =
                    <<"No METAR data found for airport code: ">> \o NormalizedInput
        ELSE pc = "done" => decode_calls = 1

C3_Witness ==
    /\ IsForm /\ pc = "done" /\ FetchReturned
    /\ startswith(StrippedBody, <<"E", "r", "r", "o", "r">>)
    /\ response.error = <<"No METAR data found for airport code: ", "K", "K", "K", "K">>
    /\ decode_calls = 0

\* C4: on the form endpoint a fetch failure (network error, timeout, HTTP
\* error status) is reported as "Failed to fetch METAR data: ..." and never as
\* "Error decoding METAR: ..."; a failure raised by decode_metar is reported
\* as "Error decoding METAR: ..." and never as "Failed to fetch METAR data: ...".
C4_DistinctFailureMessages ==
    (IsForm /\ pc = "done") =>
        /\ (FetchRaised /\ fetch_outcome.exc.cls \in {"ConnectionError", "Timeout", "HTTPError"}) =>
              /\ response.error = <<"Failed to fetch METAR data: ">> \o fetch_outcome.exc.msg
              /\ Head(response.error) # "Error decoding METAR: "
        /\ DecodeRaised =>
              /\ response.error = <<"Error decoding METAR: ">> \o decode_outcome.exc.msg
              /\ Head(response.error) # "Failed to fetch METAR data: "

C4_Witness ==
    /\ IsForm /\ pc = "done" /\ FetchRaised
    /\ fetch_outcome.exc.cls = "Timeout"
    /\ response.error = <<"Failed to fetch METAR data: ", "Read timed out">>

\* C5: on the JSON endpoint a request in which the fetch raises or decode_metar
\* raises ends with HTTP 500 and a JSON body with an error field: never 200 or
\* 404, and the handler returns a response.
C5_ApiFailureIs500 ==
    (IsApi /\ (FetchRaised \/ DecodeRaised)) =>
        /\ pc = "done"
        /\ response.kind = "json"
        /\ response.status = 500
        /\ response.keys = {"error"}
        /\ response.error = IF FetchRaised THEN fetch_outcome.exc.msg
                            ELSE decode_outcome.exc.msg

C5_Witness ==
    /\ IsApi /\ pc = "done" /\ DecodeRaised
    /\ response.status = 500

\* C6: whenever a fetch is issued, on either endpoint, its ids parameter is the
\* input code trimmed and upper-cased; the form endpoint applies its length
\* validation to that normalised code, not to the raw input.
C6_NormalizedCode ==
    /\ fetch_calls >= 1 => fetch_ids = NormalizedInput
    /\ (IsForm /\ pc \notin {"idle", "form_validate"}) =>
          (Len(NormalizedInput) = 4 <=> ~(pc = "done" /\ fetch_calls = 0))

\* A padded lower-case form field of 5 characters fetches the 4-character code.
C6_Witness ==
    /\ IsForm /\ fetch_calls = 1
    /\ request.code = <<" ", "k", "K", "k", "k">>
    /\ fetch_ids = <<"K", "K", "K", "K">>

\* C7: on the JSON endpoint, when decode_metar was invoked (the fetch returned
\* a body not classified as no-data) and returned, the response is HTTP 200
\* with exactly airport_code (the normalised code), raw_metar (the stripped
\* body) and decoded (decode_metar's value: summary, details, station, time).
C7_ApiSuccess ==
    (IsApi /\ pc = "done" /\ DecodeReturned) =>
        /\ response.status = 200
        /\ response.kind = "json"
        /\ response.keys = {"airport_code", "raw_metar", "decoded"}
        /\ response.airport_code = NormalizedInput
        /\ response.raw_metar = StrippedBody
        /\ response.decoded = decode_outcome.value
        /\ DOMAIN response.decoded = {"summary", "details", "station", "time"}
        /\ response.decoded.station = parse_outcome.obs.station_id

C7_Witness ==
    /\ IsApi /\ pc = "done" /\ DecodeReturned
    /\ fetch_outcome.body = BodyKJFK
    /\ request.code = <<" ", "k", "K">>
    /\ response.status = 200
    /\ response.decoded.station = "KJFK"

\* C8: in every request the fetch gateway is called at most once and
\* decode_metar at most once; decode_metar is called only after the fetch has
\* returned, with exactly the stripped body; after a fetch or decode failure
\* the handler is finished, with no second call.
C8_AtMostOnceNoRetry ==
    /\ fetch_calls <= 1
    /\ decode_calls <= 1
    /\ decode_calls = 1 => (FetchReturned /\ decode_arg = StrippedBody)
    /\ (FetchRaised \/ DecodeRaised) => pc = "done"
    /\ FetchRaised => decode_calls = 0

C8_Witness ==
    /\ IsForm /\ pc = "done" /\ DecodeRaised
    /\ fetch_calls = 1
    /\ decode_arg = BodyGarbage

\* The six outcomes of the form endpoint, read off the response.
FormOutcomes ==
    {o \in {"empty", "length", "nodata", "fetch", "decode", "result"} :
        CASE o = "empty"  -> response.error = <<"Please enter an airport code">>
          [] o = "length" -> response.error =
                               <<"Airport code must be 4 characters (e.g., VOMM, KJFK)">>
          [] o = "nodata" -> /\ response.error # <<>>
                             /\ Head(response.error) = "No METAR data found for airport code: "
          [] o = "fetch"  -> /\ response.error # <<>>
                             /\ Head(response.error) = "Failed to fetch METAR data: "
          [] o = "decode" -> /\ response.error # <<>>
                             /\ Head(response.error) = "Error decoding METAR: "
          [] o = "result" -> /\ response.keys = {"airport_code", "raw_metar", "decoded"}
                             /\ response.airport_code = NormalizedInput
                             /\ response.raw_metar = StrippedBody
                             /\ response.decoded = decode_outcome.value}

\* C9: every request to the form endpoint ends with exactly one of the six
\* outcomes, each with HTTP status 200; until it ends the handler always has a
\* next step.
C9_FormSixOutcomes ==
    IsForm =>
        /\ pc = "done" =>
            /\ response.status = 200
            /\ Cardinality(FormOutcomes) = 1
        /\ pc # "done" => ENABLED \/ FormValidate
                                  \/ FormFetchCall
                                  \/ FormFetchReturn
                                  \/ FormCheck
                                  \/ FormDecode

C9_Witness ==
    /\ IsForm /\ pc = "done"
    /\ FormOutcomes = {"result"}
    /\ response.status = 200

\* C10: when the grammar parser fails on the raw string, decode_metar fails
\* with no report, and its message is the decode-failure text followed by the
\* parser's message, so the parser's message is contained in it; the parser is
\* called once.
C10_DecodeErrorKeepsCause ==
    (decode_calls = 1 /\ ~parse_outcome.ok) =>
        /\ ~decode_outcome.ok
        /\ decode_outcome.value = NoReport
        /\ decode_outcome.exc.msg = <<"Failed to parse METAR: ">> \o parse_outcome.msg
        /\ Contains(decode_outcome.exc.msg, parse_outcome.msg)
        /\ decode_outcome.parser_calls = 1

C10_Witness ==
    /\ IsApi /\ pc = "done"
    /\ decode_calls = 1 /\ ~parse_outcome.ok
    /\ decode_outcome.exc.msg = <<"Failed to parse METAR: ", "Station code not found">>

(***************************************************************************)
(* Properties of the decoder, stated over a decode_metar call: the         *)
(* observation the parser returned and the report the call returned.       *)
(***************************************************************************)
Obs == parse_outcome.obs
Report == decode_outcome.value
Decoded == pc = "decoded" /\ decode_outcome.ok
Details == Report.details

\* The seven kinds of detail line in the pipeline order, and the line of each
\* kind for the observation ("" when it has none).
PipelineKinds == <<"sky", "temperature", "dew point", "wind", "visibility", "pressure", "weather">>
KindLine(k) ==
    CASE k = 1 -> get_sky_condition(Obs)
      [] k = 2 -> temperature_line(Obs)
      [] k = 3 -> dewpoint_line(Obs)
      [] k = 4 -> get_wind_info(Obs)
      [] k = 5 -> visibility_line(Obs)
      [] k = 6 -> pressure_line(Obs)
      [] k = 7 -> get_weather_phenomena(Obs)
IsKind(line, k) == line # "" /\ line = KindLine(k)
KindsOf(line) == {k \in 1..7 : IsKind(line, k)}

\* C12: the details of a report are a subsequence of the pipeline order sky,
\* temperature, dew point, wind, visibility, pressure, weather: every line is
\* of exactly one kind, and the kinds strictly increase along the list, so no
\* kind appears twice.
C12_DetailsInPipelineOrder ==
    Decoded =>
        /\ \A i \in 1..Len(Details) : Cardinality(KindsOf(Details[i])) = 1
        /\ \A i, j \in 1..Len(Details) :
            i < j => \A k \in KindsOf(Details[i]), l \in KindsOf(Details[j]) : k < l

C12_Witness ==
    /\ Decoded
    /\ Len(Details) = 7
    /\ \A k \in 1..7 : IsKind(Details[k], k)

\* The source field of each kind of line is present in the observation.
FieldPresent(k) ==
    CASE k = 1 -> Obs.sky # <<>>
      [] k = 2 -> Obs.temp.present
      [] k = 3 -> Obs.dewpt.present
      [] k = 4 -> Obs.wind_speed.present
      [] k = 5 -> Obs.vis.present
      [] k = 6 -> Obs.press.present
      [] k = 7 -> Obs.weather # <<>>
HasKind(k) == \E i \in 1..Len(Details) : IsKind(Details[i], k)
OptionalKinds == {2, 3, 5, 6, 7}

\* C13 as stated: a line of each of the seven kinds is in the details only if
\* its source field is present; in particular a sky line only if sky layers
\* are reported and a wind line only if a wind speed is reported.
C13_LineOnlyIfFieldPresent ==
    Decoded => \A k \in 1..7 : HasKind(k) => FieldPresent(k)

\* C13, amended: the temperature, dew point, visibility, pressure and weather
\* lines are in the details exactly when their field is present; the sky line
\* and the wind line are always there, "Sky condition: Clear" standing for no
\* sky layers and "Wind: Calm" for no wind speed.  The details hold nothing
\* else.
C13_OptionalLinesFollowFields ==
    Decoded =>
        /\ \A k \in OptionalKinds : HasKind(k) <=> FieldPresent(k)
        /\ HasKind(1) /\ HasKind(4)
        /\ Obs.sky = <<>> => Details[1] = "Sky condition: Clear"
        /\ ~Obs.wind_speed.present => \E i \in 1..Len(Details) : Details[i] = "Wind: Calm"
        /\ Len(Details) = 2 + Cardinality({k \in OptionalKinds : FieldPresent(k)})

C13_Witness ==
    /\ Decoded
    /\ Obs.sky = <<>> /\ ~Obs.wind_speed.present
    /\ Obs.temp.present /\ ~Obs.vis.present
    /\ Details = <<"Sky condition: Clear", "Temperature: 32°F (0°C)", "Wind: Calm">>

\* The line of kind k in the details: the sky and wind lines are always
\* there, the others when their field is present.
LinePosition(k) == 1 + Cardinality({j \in 1..(k - 1) : j \in {1, 4} \/ FieldPresent(j)})
DetailLine(k) == Details[LinePosition(k)]

\* The 22.5-degree sector around the k-th compass point that holds a
\* direction of d hundredths of a degree; it is closed at its low end.
Sector(d) == CHOOSE k \in 0..17 : 2250 * k - 1125 <= d /\ d < 2250 * k + 1125
WindDirection == degrees_to_direction(Obs.wind_dir.v)
CitedDirections ==
    {<<0, "north">>, <<9000, "east">>, <<18000, "south">>, <<27000, "west">>,
     <<31500, "northwest">>, <<1124, "north">>, <<1125, "north-northeast">>,
     <<36000, "north">>}

\* C14: for a direction of 0 to 360 degrees, in hundredths of a degree,
\* degrees_to_direction gives one of the 16 compass names: the name of the
\* 22.5-degree sector centred on a compass point that holds the direction, a
\* boundary belonging to the sector above it and 360 wrapping to north.  The
\* cited directions get the cited names, and the wind line of a report on a
\* wind of 8 knots ends with that name.
C14_DirectionSector ==
    (Decoded /\ Obs.wind_dir.present) =>
        /\ \E i \in 1..16 : WindDirection = directions[i]
        /\ WindDirection = directions[(Sector(Obs.wind_dir.v) % 16) + 1]
        /\ \A c \in CitedDirections : Obs.wind_dir.v = c[1] => WindDirection = c[2]
        /\ (Obs.wind_speed.present /\ Obs.wind_speed.kt = 800 /\ ~Obs.wind_gust.present) =>
              DetailLine(4) = "Wind: 9 mph (8 knots) from the "
                                  \o directions[(Sector(Obs.wind_dir.v) % 16) + 1]

C14_Witness ==
    /\ Decoded
    /\ Obs.wind_dir = Some(36000)
    /\ WindDirection = "north"
    /\ DetailLine(4) = "Wind: 9 mph (8 knots) from the north"

\* The set of cover codes of the observation's sky layers, and the category
\* the precedence rule gives it.
Covers == {Obs.sky[i].cover : i \in 1..Len(Obs.sky)}
SkyCategory ==
    IF Covers \cap {"CLR", "SKC"} # {} \/ Obs.sky = <<>> THEN "Clear skies"
    ELSE IF "OVC" \in Covers THEN "Overcast"
    ELSE IF Covers \cap {"BKN", "SCT"} # {} THEN "Partly cloudy"
    ELSE "Few clouds"

\* C15: the summary begins with the sky category chosen by precedence over
\* the set of cover codes, whatever the order of the layers: "Clear skies"
\* with no layers or any CLR or SKC layer, else "Overcast" with any OVC layer,
\* else "Partly cloudy" with any BKN or SCT layer, else "Few clouds"; layers
\* OVC and CLR together give "Clear skies".
C15_SkyCategoryPrecedence ==
    Decoded =>
        /\ Report.summary = join(", ", <<SkyCategory>> \o Tail(summary_parts(Obs))) \o "."
        /\ (Obs.temp = Absent /\ Obs.wind_speed = NoSpeed /\ Obs.weather = <<>>) =>
              Report.summary = SkyCategory \o ", calm winds."
        /\ Covers = {"OVC", "CLR"} => SkyCategory = "Clear skies"

C15_Witness ==
    /\ Decoded
    /\ Len(Obs.sky) = 2 /\ Obs.sky[1].cover = "OVC" /\ Obs.sky[2].cover = "CLR"
    /\ Report.summary = "Clear skies, calm winds."

\* C16: a report on an observation whose wind speed is absent, or is below 1
\* knot (0 included), has the wind line "Wind: Calm" exactly, whatever the
\* direction and the gust are.
C16_CalmWindLine ==
    (Decoded /\ (~Obs.wind_speed.present \/ Obs.wind_speed.kt < 100)) =>
        /\ DetailLine(4) = "Wind: Calm"
        /\ get_wind_info(Obs) = "Wind: Calm"

\* A wind of 1 km/h, 0.54 knots, with a direction and a gust.
C16_Witness ==
    /\ Decoded
    /\ Obs.wind_speed = KmhSpeed(1) /\ Obs.wind_speed.kt = 53
    /\ Obs.wind_dir.present /\ Obs.wind_gust.present
    /\ DetailLine(4) = "Wind: Calm"

\* The fixed table of cover descriptions; a code outside it stands for itself.
CoverTexts ==
    [CLR |-> "Clear", SKC |-> "Clear", FEW |-> "Few clouds", SCT |-> "Scattered clouds",
     BKN |-> "Broken clouds", OVC |-> "Overcast", VV |-> "Vertical visibility"]
LayerText(layer) ==
    (IF layer.cover \in DOMAIN CoverTexts THEN CoverTexts[layer.cover] ELSE layer.cover)
    \o (IF layer.height.present
        THEN " at " \o ToString(layer.height.v \div 100) \o " feet"
        ELSE "")
RECURSIVE LayerTexts(_)
LayerTexts(layers) ==
    IF Len(layers) = 1 THEN LayerText(layers[1])
    ELSE LayerTexts(SubSeq(layers, 1, Len(layers) - 1)) \o ", " \o LayerText(layers[Len(layers)])
HeightsAbsentOrPositive ==
    \A i \in 1..Len(Obs.sky) : ~Obs.sky[i].height.present \/ Obs.sky[i].height.v > 0

\* C17: the sky line is "Sky condition: Clear" when the observation has no
\* sky layers; otherwise it is "Sky: " followed by one description per layer,
\* in the order of the layers, joined by ", ", each cover code described by the
\* fixed table and any other code standing for itself.  Layers FEW at 25000
\* feet and OVC without a height give "Sky: Few clouds at 25000 feet,
\* Overcast".
C17_SkyLine ==
    Decoded =>
        /\ Obs.sky = <<>> => Details[1] = "Sky condition: Clear"
        /\ (Obs.sky # <<>> /\ HeightsAbsentOrPositive) =>
              Details[1] = "Sky: " \o LayerTexts(Obs.sky)
        /\ Obs.sky = <<[cover |-> "FEW", height |-> Some(2500000)],
                       [cover |-> "OVC", height |-> Absent]>> =>
              Details[1] = "Sky: Few clouds at 25000 feet, Overcast"

C17_Witness ==
    /\ Decoded
    /\ Obs.sky = <<[cover |-> "FEW", height |-> Some(2500000)],
                   [cover |-> "///", height |-> Absent]>>
    /\ Details[1] = "Sky: Few clouds at 25000 feet, ///"

\* The texts of a visibility of v hundredths of a mile rounded to a whole
\* number and to one decimal: the nearest value, or either neighbour at a tie.
WholeTexts(v) == {ToString(m) : m \in {m \in {v \div 100, v \div 100 + 1} :
                                           100 * m - v <= 50 /\ v - 100 * m <= 50}}
OneDecimalTexts(v) ==
    {ToString(t \div 10) \o "." \o ToString(t % 10) :
        t \in {t \in {v \div 10, v \div 10 + 1} : 10 * t - v <= 5 /\ v - 10 * t <= 5}}

\* C18: for a visibility of v statute miles, in hundredths, the visibility
\* line is "Visibility: <v to the nearest whole number>+ miles (excellent)"
\* when v >= 10 and "Visibility: <v to one decimal> miles" otherwise; the
\* choice is made on v itself, so 10.0 gives "10+ miles (excellent)" and 9.99
\* gives "10.0 miles".
C18_VisibilityLine ==
    (Decoded /\ Obs.vis.present) =>
        /\ Obs.vis.v >= 1000 =>
              \E text \in WholeTexts(Obs.vis.v) :
                  DetailLine(5) = "Visibility: " \o text \o "+ miles (excellent)"
        /\ Obs.vis.v < 1000 =>
              \E text \in OneDecimalTexts(Obs.vis.v) :
                  DetailLine(5) = "Visibility: " \o text \o " miles"
        /\ Obs.vis.v = 1000 => DetailLine(5) = "Visibility: 10+ miles (excellent)"
        /\ Obs.vis.v = 999 => DetailLine(5) = "Visibility: 10.0 miles"

C18_Witness ==
    /\ Decoded
    /\ Obs.vis = Some(999)
    /\ DetailLine(5) = "Visibility: 10.0 miles"

\* The Fahrenheit value of c whole degrees Celsius to the nearest integer:
\* c * 9/5 + 32 is never half-way between two integers.
NearestFahrenheit(c) ==
    CHOOSE f \in {(9 * c + 160) \div 5, (9 * c + 160) \div 5 + 1} :
        5 * f - (9 * c + 160) <= 2 /\ (9 * c + 160) - 5 * f <= 2
TemperatureText(c) == ToString(NearestFahrenheit(c)) \o "°F (" \o ToString(c) \o "°C)"

\* C19: for a temperature or dew point of c whole degrees Celsius, the line
\* is "<label>: <F>°F (<c>°C)" with F the integer nearest c * 9/5 + 32; 0
\* degrees gives "32°F (0°C)" and -4 degrees "25°F (-4°C)"; an absent value
\* gives no line.
C19_TemperatureLines ==
    Decoded =>
        /\ Obs.temp.present =>
              DetailLine(2) = "Temperature: " \o TemperatureText(Obs.temp.v \div 100)
        /\ Obs.dewpt.present =>
              DetailLine(3) = "Dew point: " \o TemperatureText(Obs.dewpt.v \div 100)
        /\ Obs.temp = Some(0) => DetailLine(2) = "Temperature: 32°F (0°C)"
        /\ Obs.temp = Some(-400) => DetailLine(2) = "Temperature: 25°F (-4°C)"
        /\ ~Obs.temp.present => ~HasKind(2)
        /\ ~Obs.dewpt.present => ~HasKind(3)
        /\ Len(Details) = 2 + Cardinality({k \in OptionalKinds : FieldPresent(k)})

HasLine(line) == \E i \in 1..Len(Details) : Details[i] = line

\* C20: decode_metar on "KJFK 041851Z 31008KT 10SM FEW250 M04/M17 A3034"
\* returns station "KJFK", a wind line naming the northwest, and the lines
\* "Temperature: 25°F (-4°C)", "Visibility: 10+ miles (excellent)" and
\* "Pressure: 30.34 inHg (1027 mb)".
C20_EndToEndKJFK ==
    (Decoded /\ decode_arg = BodyKJFK) =>
        /\ Report.station = "KJFK"
        /\ DetailLine(4) = "Wind: 9 mph (8 knots) from the northwest"
        /\ HasLine("Temperature: 25°F (-4°C)")
        /\ HasLine("Visibility: 10+ miles (excellent)")
        /\ HasLine("Pressure: 30.34 inHg (1027 mb)")

(***************************************************************************)
(* Concurrent requests.                                                    *)
(***************************************************************************)
\* The response worker w's request gets when it is the only one running.
AloneResponse(w) ==
    IF request[w].endpoint = "form"
    THEN get_weather(request[w], fetch_outcome[w], parse_outcome[w])
    ELSE api_weather(request[w], fetch_outcome[w], parse_outcome[w])
OwnCode(w) ==
    IF request[w].endpoint = "form"
    THEN normalize(form_get(request[w]))
    ELSE normalize(request[w].code)
PassesValidation(w) == request[w].endpoint = "api" \/ validation_error(OwnCode(w)) = <<>>

\* C11: whatever the interleaving of the steps of concurrent requests, each
\* request ends with the response its handler gives when run alone on the
\* same request, gateway answer and parser answer, so no step depends on what
\* another invocation wrote; and every request that passes validation made
\* its own single fetch, for its own code, whose body is the report it shows:
\* no fetched report is kept for a later request.
C11_IndependentInvocations ==
    \A w \in Workers :
        pc[w] = "done" =>
            /\ response[w] = AloneResponse(w)
            /\ PassesValidation(w) =>
                  /\ fetch_calls[w] = 1
                  /\ fetch_ids[w] = OwnCode(w)
            /\ ~PassesValidation(w) => fetch_calls[w] = 0
            /\ "raw_metar" \in response[w].keys =>
                  response[w].raw_metar = strip(fetch_outcome[w].body)

\* Two requests for the same code in flight together, one answered from a
\* report and the other told that there is no data.
C11_Witness ==
    /\ pc[1] = "done" /\ pc[2] = "done"
    /\ request[1] = request[2] /\ request[1].endpoint = "api"
    /\ response[1].status = 200 /\ "raw_metar" \in response[1].keys
    /\ response[2].status = 404
    /\ fetch_calls[1] = 1 /\ fetch_calls[2] = 1

(***************************************************************************)
(* Summary sentence.                                                       *)
(***************************************************************************)
RECURSIVE CommaJoined(_)
CommaJoined(segments) ==
    IF Len(segments) = 1 THEN segments[1]
    ELSE CommaJoined(SubSeq(segments, 1, Len(segments) - 1)) \o ", " \o segments[Len(segments)]

\* The segments of the summary in their fixed order: sky category, the
\* temperature when there is one, wind, the weather phenomena when there are
\* any, lower-cased and joined into one segment.
SummarySegments ==
    <<SkyCategory>>
    \o (IF Obs.temp.present THEN <<fmt_fahrenheit(Obs.temp.v) \o "°F">> ELSE <<>>)
    \o <<summary_wind(Obs)>>
    \o (IF Obs.weather # <<>>
        THEN <<CommaJoined([i \in 1..Len(Obs.weather) |-> lower(Obs.weather[i])])>>
        ELSE <<>>)

\* C21: the summary is the segments sky category, temperature (only when a
\* temperature is present, as "<F>°F"), wind, weather (only when there are
\* phenomena, lower-cased and comma-joined as one segment), in that order,
\* joined by ", " and ended by one period; the sky and wind segments are
\* always there, so there are never fewer than two segments.
C21_SummarySegments ==
    Decoded =>
        /\ Report.summary = CommaJoined(SummarySegments) \o "."
        /\ summary_parts(Obs) = SummarySegments
        /\ Len(summary_parts(Obs)) >= 2
        /\ Len(summary_parts(Obs)) =
              2 + (IF Obs.temp.present THEN 1 ELSE 0) + (IF Obs.weather # <<>> THEN 1 ELSE 0)

C21_Witness ==
    /\ Decoded
    /\ Obs.temp.present /\ Obs.weather = <<"Rain", "Mist">>
    /\ Report.summary = "Partly cloudy, 48°F, winds 17 mph variable direction, rain, mist."

\* C22: in the sky line every layer that carries a height has " at <h> feet"
\* after its cover description, for every height, 0 feet included, and a
\* layer without a height has the cover description alone.
C22_HeightSuffix ==
    (Decoded /\ Obs.sky # <<>>) =>
        /\ Details[1] = "Sky: " \o LayerTexts(Obs.sky)
        /\ \A i \in 1..Len(Obs.sky) :
              sky_layer_text(Obs.sky[i]) = LayerText(Obs.sky[i])

\* The direction text and the gust suffix of a wind line.
DirectionText ==
    IF Obs.wind_dir.present
    THEN directions[(Sector(Obs.wind_dir.v) % 16) + 1]
    ELSE "variable"
GustSuffixes ==
    IF Obs.wind_gust.present
    THEN {", gusting to " \o mph \o " mph (" \o kt \o " knots)" :
             mph \in WholeTexts(Obs.wind_gust.mph), kt \in WholeTexts(Obs.wind_gust.kt)}
    ELSE {""}

\* C23: with a wind speed of 1 knot or more, the wind line is "Wind: <mph>
\* mph (<kt> knots) from the <direction>", both speeds to the nearest integer;
\* the direction is "variable" when the observation has no wind direction and
\* the compass name of the direction otherwise, 0 degrees giving "north"; ",
\* gusting to <mph> mph (<kt> knots)" follows exactly when there is a gust.
C23_WindLine ==
    (Decoded /\ Obs.wind_speed.present /\ Obs.wind_speed.kt >= 100) =>
        /\ \E mph \in WholeTexts(Obs.wind_speed.mph), kt \in WholeTexts(Obs.wind_speed.kt),
              gust \in GustSuffixes :
              DetailLine(4) = "Wind: " \o mph \o " mph (" \o kt \o " knots) from the "
                                  \o DirectionText \o gust
        /\ Obs.wind_dir = Some(0) => DirectionText = "north"

C23_Witness ==
    /\ Decoded
    /\ Obs.wind_speed.present /\ Obs.wind_speed.kt = 100
    /\ Obs.wind_dir = Some(0) /\ Obs.wind_gust.present
    /\ DetailLine(4) = "Wind: 1 mph (1 knots) from the north, gusting to 17 mph (15 knots)"

\* The wind segment of the summary: the segment after the sky category and
\* the temperature.
SummaryWindSegment == summary_parts(Obs)[IF Obs.temp.present THEN 3 ELSE 2]

\* C24: in one report the wind detail line is "Wind: Calm" exactly when the
\* wind segment of the summary is "calm winds", for every wind speed an
\* observation carries: whole knots and the speeds converted from whole
\* metres per second and kilometres per hour, which are not whole knots.
C24_CalmAgreement ==
    Decoded =>
        /\ Report.summary = CommaJoined(summary_parts(Obs)) \o "."
        /\ DetailLine(4) = "Wind: Calm" <=> SummaryWindSegment = "calm winds"

\* A wind of 1 km/h, 0.54 knots and 0.62 mph, is calm in both places.
C24_Witness ==
    /\ Decoded
    /\ Obs.wind_speed = KmhSpeed(1) /\ Obs.wind_speed.mph = 62
    /\ Obs.wind_dir.present
    /\ DetailLine(4) = "Wind: Calm"
    /\ SummaryWindSegment = "calm winds"
    /\ Report.summary = "Clear skies, calm winds."

\* C25 as stated: decoding "VOMM 041830Z 09005KT 8000 FEW020 SCT100 32/24
\* Q1010" gives the summary "Few clouds, 90°F, winds 6 mph from the east."
\* with the sky line "Sky: Few clouds at 2000 feet, Scattered clouds at 10000
\* feet" and the wind line "Wind: 6 mph (5 knots) from the east".
C25_VOMMAsRecorded ==
    (Decoded /\ decode_arg = BodyVOMM) =>
        /\ Report.summary = "Few clouds, 90°F, winds 6 mph from the east."
        /\ DetailLine(1) = "Sky: Few clouds at 2000 feet, Scattered clouds at 10000 feet"
        /\ DetailLine(4) = "Wind: 6 mph (5 knots) from the east"

\* C25, amended: the summary of that report is "Partly cloudy, 90°F, winds 6
\* mph from the east.", its scattered layer deciding the sky category; the
\* sky and wind lines are the recorded ones.
C25_VOMMPartlyCloudy ==
    (Decoded /\ decode_arg = BodyVOMM) =>
        /\ Report.summary = "Partly cloudy, 90°F, winds 6 mph from the east."
        /\ DetailLine(1) = "Sky: Few clouds at 2000 feet, Scattered clouds at 10000 feet"
        /\ DetailLine(4) = "Wind: 6 mph (5 knots) from the east"
        /\ Report.station = "VOMM"

C25_Witness ==
    /\ Decoded /\ decode_arg = BodyVOMM
    /\ Covers = {"FEW", "SCT"}
    /\ Report.summary = "Partly cloudy, 90°F, winds 6 mph from the east."

=============================================================================
